---- MODULE Spec2Model ----
(***************************************************************************)
(* A model of csnades-scraper.mjs: the discovery pass over the listing     *)
(* document, the bounded-concurrency limiter (pLimit), the per-item jobs   *)
(* and the rendering of the output file.                                   *)
(*                                                                         *)
(* Text is a sequence of one-character strings.  A listing document is a   *)
(* sequence of field tokens (one token per escaped JSON-like field, the    *)
(* granularity at which the extractor's regular expressions match).  An    *)
(* item document is a sequence of characters and of the two tokens the     *)
(* console regular expression looks at.                                    *)
(***************************************************************************)
EXTENDS Integers, Sequences, FiniteSets, TLC

VARIABLES
  pc,         \* position of main(): "fetchMap", "submit", "awaitAll", "writing", "done", "exit1"
  mapFetch,   \* outcome of fetchText(mapUrl): "pending", "ok", "failed"
  mapHtml,    \* the listing document once fetched
  rawNades,   \* the local `nades` of extractNadesFromMapHtml before the filter
  allNades,   \* the value extractNadesFromMapHtml returned
  limitArg,   \* args.limit as Number.parseInt reads it
  limit,      \* const limit of main()
  max,        \* const max of main() (Null when --max is not given)
  nades,      \* const nades of main(): the records that are scheduled
  sub,        \* index of the next record nades.map() hands to the limiter
  queue,      \* pLimit: pending jobs (indices into nades), oldest first
  active,     \* pLimit: active counter
  st,         \* per job: "new", "queued", "fetching", "returning", "resolved", "rejected"
  released,   \* jobs whose finally-callback has run
  fetched,    \* jobs that issued fetchText(nadeUrl)
  ret,        \* per job: the value its promise resolved with
  thrown,     \* per job: what it threw ("none", "fetch", "decode")
  values,     \* the array Promise.all collects
  allP,       \* state of the Promise.all promise: "none", "pending", "fulfilled", "rejected"
  reordered,  \* observation: some job settled while an earlier one had not
  done,       \* let done of main()
  lines,      \* const lines of main() once rendered
  missing,    \* let missing of main()
  out,        \* content of the output file (Null while not written)
  plain,      \* a text whose source-style escaped form is decoded (SpecDecode)
  decoded     \* what decodeJsEscapedString returned for it (Null before the call)

\* the variables of main() and of the limiter
mainVars == << pc, mapFetch, mapHtml, rawNades, allNades, limitArg, limit, max,
               nades, sub, queue, active, st, released, fetched, ret, thrown,
               values, allP, reordered, done, lines, missing, out >>

\* the variables of the decoder's harness
unitVars == << plain, decoded >>

vars == << mainVars, unitVars >>

(***************************************************************************)
(* Bounds                                                                  *)
(***************************************************************************)
\* Largest number of anchor-bounded spans in a listing document.
MaxSpans == 3

(***************************************************************************)
(* Text                                                                    *)
(***************************************************************************)
\* JavaScript null / undefined: a value no text equals (text holds
\* one-character strings only).
Null == << "null" >>

BS == "\\"
QT == "\""
LF == "\n"

DEFAULT_LIMIT == 6

smoke     == << "s", "m", "o", "k", "e" >>
molotov   == << "m", "o", "l", "o", "t", "o", "v" >>
flashbang == << "f", "l", "a", "s", "h", "b", "a", "n", "g" >>
he        == << "h", "e" >>
other     == << "x" >>

Max2(a, b) == IF a >= b THEN a ELSE b
Min2(a, b) == IF a <= b THEN a ELSE b

\* Array.prototype.slice(0, k)
Take(S, k) == SubSeq(S, 1, Min2(k, Len(S)))

\* Array.prototype.join(sep) on a sequence of texts
RECURSIVE Join(_, _)
Join(parts, sep) ==
  IF Len(parts) = 0 THEN << >>
  ELSE IF Len(parts) = 1 THEN parts[1]
  ELSE parts[1] \o sep \o Join(Tail(parts), sep)

(***************************************************************************)
(* Escaped-fragment extractor                                              *)
(***************************************************************************)
\* A listing document is a sequence of tokens [k, v]:
\*   k = "id"     the anchor literal \"id\":\"nade_ followed by the text v
\*                and the closing \" (v empty: the identifier is malformed)
\*   k = "slug"   ,\"slug\":\"v\"
\*   k = "type", "team", "titleFrom", "titleTo"   ,\"k\":\"v\"
\*   k = "noise"  any other markup
Tok(k, v) == [k |-> k, v |-> v]

nadePrefix == << "n", "a", "d", "e", "_" >>

Types == { smoke, molotov, flashbang, he }
Teams == { << "c", "t" >>, << "t" >> }

\* [^\\"]+ : one or more characters
NonEmpty(v) == Len(v) > 0

\* html.indexOf(idNeedle, idx): the first anchor at or after idx, 0 for none
IndexOfAnchor(html, idx) ==
  LET hits == { i \in idx..Len(html) : html[i].k = "id" } IN
  IF hits = {} THEN 0 ELSE CHOOSE i \in hits : \A j \in hits : i <= j

\* the while loop collecting starts
RECURSIVE StartsFrom(_, _)
StartsFrom(html, idx) ==
  LET found == IndexOfAnchor(html, idx) IN
  IF found = 0 THEN << >> ELSE << found >> \o StartsFrom(html, found + 1)

\* the first of the fields of the chunk at the indices in hits, Null for none
FirstHit(chunk, hits) ==
  IF hits = {} THEN Null
  ELSE chunk[CHOOSE i \in hits : \A j \in hits : i <= j].v

\* chunk.match(/\\"k\\":\\"([^\\"]+)\\"/): the value of the first field k
\* of the chunk that holds a text, Null for no match
FirstText(chunk, k) ==
  FirstHit(chunk, { i \in 1..Len(chunk) : chunk[i].k = k /\ NonEmpty(chunk[i].v) })

\* chunk.match(/\\"k\\":\\"(a|b|...)\\"/): the value of the first field k of
\* the chunk whose value is one of the alternatives, Null for no match
FirstEnum(chunk, k, alternatives) ==
  FirstHit(chunk, { i \in 1..Len(chunk) : chunk[i].k = k /\ chunk[i].v \in alternatives })

\* chunk.match(/\\"id\\":\\"nade_[^\\"]+\\",\\"slug\\":\\"([^\\"]+)\\"/): the
\* slug field has to follow the identifier field immediately
SlugMatch(chunk) ==
  LET hits == { i \in 1..(Len(chunk) - 1) :
                  /\ chunk[i].k = "id" /\ NonEmpty(chunk[i].v)
                  /\ chunk[i + 1].k = "slug" /\ NonEmpty(chunk[i + 1].v) } IN
  IF hits = {} THEN Null
  ELSE chunk[(CHOOSE i \in hits : \A j \in hits : i <= j) + 1].v

\* the body of the for loop: the records one chunk contributes (none or one)
ParseChunk(chunk) ==
  LET idMatch   == FirstText(chunk, "id")
      slugMatch == SlugMatch(chunk)
      typeMatch == FirstEnum(chunk, "type", Types)
  IN IF idMatch = Null \/ slugMatch = Null \/ typeMatch = Null THEN << >>
     ELSE << [ id        |-> nadePrefix \o idMatch,
               slug      |-> slugMatch,
               type      |-> typeMatch,
               team      |-> FirstEnum(chunk, "team", Teams),
               titleFrom |-> FirstText(chunk, "titleFrom"),
               titleTo   |-> FirstText(chunk, "titleTo") ] >>

\* a for loop whose chunks all run to the end of the document
RECURSIVE ParseFromUnbounded(_, _, _)
ParseFromUnbounded(html, starts, i) ==
  IF i > Len(starts) THEN << >>
  ELSE ParseChunk(SubSeq(html, starts[i], Len(html)))
         \o ParseFromUnbounded(html, starts, i + 1)

\* the for loop over starts, from chunk i on
RECURSIVE ParseFrom(_, _, _)
ParseFrom(html, starts, i) ==
  IF i > Len(starts) THEN << >>
  ELSE LET start == starts[i]
           end   == IF i + 1 <= Len(starts) THEN starts[i + 1] - 1 ELSE Len(html)
       IN ParseChunk(SubSeq(html, start, end)) \o ParseFrom(html, starts, i + 1)

\* the local `nades` before deduplication
ParseSpans(html) == ParseFrom(html, StartsFrom(html, 1), 1)

\* const key = `${nade.type}:${nade.slug}`
KeyById(nade) == nade.type \o << ":" >> \o nade.id
Key(nade) == nade.type \o << ":" >> \o nade.slug

\* nades.filter(...) with the set `seen`, from element i on
RECURSIVE FilterFrom(_, _, _)
FilterFrom(S, i, seen) ==
  IF i > Len(S) THEN << >>
  ELSE IF Key(S[i]) \in seen THEN FilterFrom(S, i + 1, seen)
  ELSE << S[i] >> \o FilterFrom(S, i + 1, seen \cup { Key(S[i]) })

\* a filter that lets the last record of each key win
RECURSIVE FilterLastFrom(_, _)
FilterLastFrom(S, i) ==
  IF i > Len(S) THEN << >>
  ELSE IF \E j \in (i + 1)..Len(S) : Key(S[j]) = Key(S[i])
       THEN FilterLastFrom(S, i + 1)
       ELSE << S[i] >> \o FilterLastFrom(S, i + 1)

\* a filter whose set forgets a key when it meets it again
RECURSIVE FilterForgetFrom(_, _, _)
FilterForgetFrom(S, i, seen) ==
  IF i > Len(S) THEN << >>
  ELSE IF Key(S[i]) \in seen THEN FilterForgetFrom(S, i + 1, seen \ { Key(S[i]) })
  ELSE << S[i] >> \o FilterForgetFrom(S, i + 1, seen \cup { Key(S[i]) })

DedupeForgetting(S) == FilterForgetFrom(S, 1, {})
DedupeLastWins(S) == FilterLastFrom(S, 1)
Dedupe(S) == FilterFrom(S, 1, {})

extractNadesFromMapHtml(html) == Dedupe(ParseSpans(html))

(***************************************************************************)
(* String unescaper and the console field of an item document              *)
(***************************************************************************)
\* An item document is a sequence whose elements are characters and the
\* tokens "OPEN" (the literal \"console\":\") and "EQ" (any other \", a
\* backslash followed by a double quote).  BS is a backslash that no quote
\* follows, QT a quote that no backslash precedes.

\* what a throwing JSON.parse leaves in place of a value
Threw == << "SyntaxError" >>

Control == { LF, "\t", "\r" }

\* .replace(/\\/g, "\\\\")
RECURSIVE EscapeBackslashes(_)
EscapeBackslashes(s) ==
  IF s = << >> THEN << >>
  ELSE (IF Head(s) = BS THEN << BS, BS >> ELSE << Head(s) >>)
       \o EscapeBackslashes(Tail(s))

\* .replace(/"/g, '\\"')
RECURSIVE EscapeQuotes(_)
EscapeQuotes(s) ==
  IF s = << >> THEN << >>
  ELSE (IF Head(s) = QT THEN << BS, QT >> ELSE << Head(s) >>)
       \o EscapeQuotes(Tail(s))

\* the escape sequences of a JSON string (\u is left out: no document of
\* the model holds the letter u after a backslash)
JsonEscapes ==
  [ e \in { QT, BS, "/", "n", "t", "r" } |->
      CASE e = "n" -> LF
        [] e = "t" -> "\t"
        [] e = "r" -> "\r"
        [] OTHER   -> e ]

\* JSON.parse of the string literal whose body (between the quotes) is s
RECURSIVE JsonParseBody(_)
JsonParseBody(s) ==
  IF s = << >> THEN << >>
  ELSE IF Head(s) = QT \/ Head(s) \in Control THEN Threw
  ELSE IF Head(s) = BS THEN
    IF Len(s) < 2 \/ s[2] \notin DOMAIN JsonEscapes THEN Threw
    ELSE LET rest == JsonParseBody(SubSeq(s, 3, Len(s))) IN
         IF rest = Threw THEN Threw ELSE << JsonEscapes[s[2]] >> \o rest
  ELSE LET rest == JsonParseBody(Tail(s)) IN
       IF rest = Threw THEN Threw ELSE << Head(s) >> \o rest

decodeJsEscapedString(maybeEscaped) ==
  JsonParseBody(EscapeQuotes(EscapeBackslashes(maybeEscaped)))

\* html.match(/\\"console\\":\\"(.*?)\\"/s): the text between the first
\* OPEN that a \" follows and that \" (an OPEN starts with \" too); Null
\* for no match
ConsoleMatch(html) ==
  LET ends(i) == { j \in (i + 1)..Len(html) : html[j] \in { "EQ", "OPEN" } }
      hits    == { i \in 1..Len(html) : html[i] = "OPEN" /\ ends(i) # {} }
  IN IF hits = {} THEN Null
     ELSE LET i == CHOOSE x \in hits : \A y \in hits : x <= y
              j == CHOOSE x \in ends(i) : \A y \in ends(i) : x <= y
          IN SubSeq(html, i + 1, j - 1)

\* Null, the decoded text, or Threw when decodeJsEscapedString throws
extractConsoleFromNadeHtml(html) ==
  LET m == ConsoleMatch(html) IN
  IF m = Null THEN Null ELSE decodeJsEscapedString(m)

(***************************************************************************)
(* The job main() hands to the limiter for one record                      *)
(***************************************************************************)
\* a mapping whose default branch returns a path
typeToPathDefaulting(type) == type \o << "s" >>

typeToPath(type) ==
  CASE type = smoke     -> << "s", "m", "o", "k", "e", "s" >>
    [] type = molotov   -> << "m", "o", "l", "o", "t", "o", "v", "s" >>
    [] type = flashbang -> << "f", "l", "a", "s", "h", "b", "a", "n", "g", "s" >>
    [] type = he        -> << "h", "e", "s" >>
    [] OTHER            -> Null

\* what fetchText(nadeUrl) answers: a rejection or the document
FetchReject == << "HTTP error" >>

\* nadeUrl, relative to the map page's URL
NadeUrl(typePath, nade) == << "/" >> \o typePath \o << "/" >> \o nade.slug

\* does the job call fetchText?
JobFetches(nade) == typeToPath(nade.type) # Null

\* the job's outcome given the answer to its fetch (unused when the job
\* does not fetch): a returned result or an exception
JobOutcome(nade, resp) ==
  LET typePath == typeToPath(nade.type) IN
  IF typePath = Null
  THEN [ kind |-> "return", thrown |-> "none", counted |-> FALSE,
         value |-> [ nade |-> nade, console |-> Null,
                     error |-> << "Unknown type: " >> \o nade.type, url |-> Null ] ]
  ELSE IF resp = FetchReject
  THEN [ kind |-> "throw", thrown |-> "fetch", counted |-> FALSE, value |-> Null ]
  ELSE LET consoleText == extractConsoleFromNadeHtml(resp) IN
       IF consoleText = Threw
       THEN [ kind |-> "throw", thrown |-> "decode", counted |-> FALSE, value |-> Null ]
       ELSE [ kind |-> "return", thrown |-> "none", counted |-> TRUE,
              value |-> [ nade |-> nade, console |-> consoleText,
                          error |-> Null, url |-> NadeUrl(typePath, nade) ] ]

(***************************************************************************)
(* Artifact renderer                                                       *)
(***************************************************************************)
\* A line is a text; a literal of the source is kept as one element.
Lower == << "a", "b", "c", "d", "e", "f", "g", "h", "i", "j", "k", "l", "m",
            "n", "o", "p", "q", "r", "s", "t", "u", "v", "w", "x", "y", "z" >>
Upper == << "A", "B", "C", "D", "E", "F", "G", "H", "I", "J", "K", "L", "M",
            "N", "O", "P", "Q", "R", "S", "T", "U", "V", "W", "X", "Y", "Z" >>

UpperChar(c) ==
  IF \E i \in 1..Len(Lower) : Lower[i] = c
  THEN Upper[CHOOSE i \in 1..Len(Lower) : Lower[i] = c] ELSE c
LowerChar(c) ==
  IF \E i \in 1..Len(Upper) : Upper[i] = c
  THEN Lower[CHOOSE i \in 1..Len(Upper) : Upper[i] = c] ELSE c

\* a toUpperCase that leaves the text as it is
toUpperCaseNot(s) == s

\* String.prototype.toUpperCase
toUpperCase(s) == [ i \in 1..Len(s) |-> UpperChar(s[i]) ]

\* \s
White == { " ", LF, "\t", "\r" }

\* String.prototype.trim
RECURSIVE TrimLeft(_)
TrimLeft(s) ==
  IF s # << >> /\ Head(s) \in White THEN TrimLeft(Tail(s)) ELSE s
RECURSIVE TrimRight(_)
TrimRight(s) ==
  IF s # << >> /\ s[Len(s)] \in White THEN TrimRight(SubSeq(s, 1, Len(s) - 1)) ELSE s
Trim(s) == TrimRight(TrimLeft(s))

\* .replace(/\s+/g, " ")
RECURSIVE CollapseWhite(_)
CollapseWhite(s) ==
  IF s = << >> THEN << >>
  ELSE IF Head(s) \in White THEN << " " >> \o CollapseWhite(TrimLeft(s))
  ELSE << Head(s) >> \o CollapseWhite(Tail(s))

sanitizeComment(s) == Trim(CollapseWhite(IF s = Null THEN << >> ELSE s))

setposLit == << "s", "e", "t", "p", "o", "s", " " >>
setangLit == << ";", "s", "e", "t", "a", "n", "g", " " >>

\* the literal lit at position p of t, letters compared without case (/i)
LitAt(t, p, lit) ==
  /\ p + Len(lit) - 1 <= Len(t)
  /\ \A i \in 1..Len(lit) : LowerChar(t[p + i - 1]) = lit[i]

\* the length of the longest run of characters outside excl from position p
RunLen(t, p, excl) ==
  LET stops == { j \in p..Len(t) : LowerChar(t[j]) \in excl } IN
  IF stops = {} THEN Len(t) - p + 1
  ELSE (CHOOSE j \in stops : \A k \in stops : j <= k) - p

\* [^;\\r\\n] and [^\\r\\n] in a regular expression literal: the classes
\* exclude the backslash and the letters r and n
Class1Excl == { ";", BS, "r", "n" }
Class2Excl == { BS, "r", "n" }

\* the end of a match of /setpos [^;\\r\\n]+;setang [^\\r\\n]+/i that starts
\* at p, 0 for none
MatchEnd(t, p) ==
  IF ~LitAt(t, p, setposLit) THEN 0
  ELSE LET q  == p + Len(setposLit)
           k  == RunLen(t, q, Class1Excl)
           r  == q + k + Len(setangLit)
           m  == RunLen(t, r, Class2Excl)
       IN IF k >= 1 /\ LitAt(t, q + k, setangLit) /\ m >= 1 THEN r + m - 1 ELSE 0

\* r.console.match(...): the first match, Null for none
SetposMatch(t) ==
  LET hits == { p \in 1..Len(t) : MatchEnd(t, p) # 0 } IN
  IF hits = {} THEN Null
  ELSE LET p == CHOOSE x \in hits : \A y \in hits : x <= y
       IN SubSeq(t, p, MatchEnd(t, p))

\* [type, team, display].filter(Boolean).join(" | ")
Label(nade) ==
  LET titleFrom == sanitizeComment(nade.titleFrom)
      titleTo   == sanitizeComment(nade.titleTo)
      team      == IF nade.team # Null THEN toUpperCase(nade.team) ELSE << "ANY" >>
      display   == IF titleFrom # << >> /\ titleTo # << >>
                   THEN titleFrom \o << " -> " >> \o titleTo ELSE nade.slug
      parts     == SelectSeq(<< nade.type, team, display >>, LAMBDA x : x # << >>)
  IN Join(parts, << " | " >>)

\* !r.console
\* a test that only null passes
NoConsoleNullOnly(r) == r.console = Null
\* !r.console: null and the empty string are falsy
NoConsole(r) == r.console = Null \/ r.console = << >>

\* the lines one iteration of the for loop pushes
Block(r) ==
  << << "// " >> \o Label(r.nade) >>
  \o (IF r.url # Null THEN << << "// " >> \o r.url >> ELSE << >>)
  \o (IF NoConsole(r) THEN << << "// MISSING_CONSOLE" >>, << >> >>
      ELSE LET match == SetposMatch(r.console) IN
           << IF match # Null THEN match ELSE Trim(r.console), << >> >>)

RECURSIVE Blocks(_)
Blocks(results) ==
  IF results = << >> THEN << >> ELSE Block(Head(results)) \o Blocks(Tail(results))

\* const lines of main() after the loop
Render(results) ==
  << << "// Generated from " >>,
     << "// Total nades: ", ToString(Len(results)) >>,
     << >> >> \o Blocks(results)

\* let missing of main() after the loop
Missing(results) == Cardinality({ i \in 1..Len(results) : NoConsole(results[i]) })

(***************************************************************************)
(* Command line                                                            *)
(***************************************************************************)
\* The value of an option after Number.parseInt(..., 10): absent, not a
\* number, or the integer n.
Arg(given, nan, n) == [ given |-> given, nan |-> nan, n |-> n ]
Absent == Arg(FALSE, FALSE, 0)
NotANumber == Arg(TRUE, TRUE, 0)

\* x || d for a parsed number x
OrElse(a, d) == IF a.nan \/ a.n = 0 THEN d ELSE a.n

\* a limit without Math.max
LimitOfUnclamped(a) == IF a.given THEN OrElse(a, DEFAULT_LIMIT) ELSE DEFAULT_LIMIT

\* Math.max(1, Number.parseInt(args.limit ?? "6", 10) || 6)
LimitOf(a) == Max2(1, IF a.given THEN OrElse(a, DEFAULT_LIMIT) ELSE DEFAULT_LIMIT)

\* args.max ? Math.max(1, Number.parseInt(args.max, 10) || 1) : null
\* (<< >> stands for null)
MaxOf(a) == IF a.given THEN << Max2(1, OrElse(a, 1)) >> ELSE << >>

(***************************************************************************)
(* Inputs                                                                  *)
(***************************************************************************)
LimitArgs ==
  { Arg(TRUE, FALSE, -1), Arg(TRUE, FALSE, 0), Arg(TRUE, FALSE, 2), NotANumber, Absent }
MaxArgs   == { Absent, NotANumber, Arg(TRUE, FALSE, 2) }

\* spans of a listing document: two records of one (type, slug) with
\* different identifiers, two records of other keys (one sharing the slug),
\* and a record whose type is outside the closed enum
SpanShapes ==
  { << Tok("id", << "1" >>), Tok("slug", << "a" >>), Tok("noise", << >>),
       Tok("type", smoke), Tok("team", << "t" >>) >>,
    << Tok("id", << "2" >>), Tok("slug", << "a" >>), Tok("type", smoke) >>,
    << Tok("id", << "3" >>), Tok("slug", << "b" >>), Tok("type", flashbang) >>,
    << Tok("id", << "5" >>), Tok("slug", << "a" >>), Tok("team", << "c", "t" >>),
       Tok("type", he), Tok("titleFrom", << "A" >>), Tok("titleTo", << "B" >>) >>,
    << Tok("id", << "4" >>), Tok("slug", << "c" >>), Tok("type", other) >>,
    << Tok("id", << >>), Tok("slug", << "b" >>), Tok("type", smoke) >>,
    << Tok("id", << "6" >>), Tok("noise", << >>), Tok("slug", << "b" >>),
       Tok("type", smoke), Tok("team", << "t" >>) >> }

\* what a listing document holds before its first anchor
Preambles ==
  { << >>,
    << Tok("slug", << "z" >>), Tok("type", molotov), Tok("team", << "c", "t" >>) >> }

RECURSIVE Concat(_)
Concat(ss) == IF ss = << >> THEN << >> ELSE Head(ss) \o Concat(Tail(ss))

\* the listing documents: up to MaxSpans spans
Listings ==
  { pre \o Concat(ss) : pre \in Preambles,
                        ss \in UNION { [ 1..n -> SpanShapes ] : n \in 0..MaxSpans } }

consoleA == << "s", "e", "t", "p", "o", "s", " ", "1", " ", "2", " ", "3", ";",
               "s", "e", "t", "a", "n", "g", " ", "4", " ", "5", " ", "6" >>

\* item documents: a console field, no console field, and a console field
\* whose text holds a raw line break
ItemDocs ==
  { << "<" >> \o << "OPEN" >> \o consoleA \o << "EQ", ">" >>,
    << "<", ">" >>,
    << "OPEN", "EQ" >>,
    << "OPEN", "a", LF, "b", "EQ" >> }

Responses == { FetchReject } \cup ItemDocs

(***************************************************************************)
(* pLimit                                                                  *)
(***************************************************************************)
\* the guard of next(): if (active >= limit) return
LimitReachedOffByOne(a, lim) == a > lim
LimitReachedEarly(a, lim) == a + 1 >= lim
LimitReached(a, lim) == a >= lim

\* next() taking the job submitted last
CallNextLifo(q, a, s, f) ==
  IF LimitReached(a, limit) \/ q = << >>
  THEN [ queue |-> q, active |-> a, st |-> s, fetched |-> f ]
  ELSE LET job == q[Len(q)] IN
       [ queue   |-> SubSeq(q, 1, Len(q) - 1),
         active  |-> a + 1,
         st      |-> [ s EXCEPT ![job] =
                         IF JobFetches(nades[job]) THEN "fetching" ELSE "returning" ],
         fetched |-> IF JobFetches(nades[job]) THEN f \cup { job } ELSE f ]

\* next() on the limiter state (q, a) with job states s and issued fetches
\* f: the state it leaves.  Starting a job runs it up to its first await:
\* it either calls fetchText or returns at once.
CallNext(q, a, s, f) ==
  IF LimitReached(a, limit) \/ q = << >>
  THEN [ queue |-> q, active |-> a, st |-> s, fetched |-> f ]
  ELSE LET job == Head(q) IN
       [ queue   |-> Tail(q),
         active  |-> a + 1,
         st      |-> [ s EXCEPT ![job] =
                         IF JobFetches(nades[job]) THEN "fetching" ELSE "returning" ],
         fetched |-> IF JobFetches(nades[job]) THEN f \cup { job } ELSE f ]

(***************************************************************************)
(* main()                                                                  *)
(***************************************************************************)
Jobs == 1..Len(nades)
Settled(i) == st[i] \in { "resolved", "rejected" }
Running(i) == st[i] \in { "fetching", "returning" }

\* max ? allNades.slice(0, max) : allNades
TruncateNever(all, m) == all
Truncate(all, m) == IF Len(m) # 0 THEN Take(all, m[1]) ELSE all

\* !nades.length
NoNadesNever(n) == FALSE
NoNades(n) == Len(n) = 0

\* Promise.all keeps the value of the promise at index i at index i of its
\* values; k is the number of promises fulfilled before
StoreInCompletionOrder(vals, i, v, k) == [ vals EXCEPT ![k + 1] = v ]
PromiseAllStore(vals, i, v, k) == [ vals EXCEPT ![i] = v ]

Init ==
  /\ pc = "fetchMap"
  /\ mapFetch = "pending"
  /\ mapHtml = << >>
  /\ rawNades = << >>
  /\ allNades = << >>
  /\ limitArg \in LimitArgs
  /\ limit = LimitOf(limitArg)
  /\ max \in { MaxOf(a) : a \in MaxArgs }
  /\ nades = << >>
  /\ sub = 1
  /\ queue = << >>
  /\ active = 0
  /\ st = << >>
  /\ released = {}
  /\ fetched = {}
  /\ ret = << >>
  /\ thrown = << >>
  /\ values = << >>
  /\ allP = "none"
  /\ reordered = FALSE
  /\ done = 0
  /\ lines = Null
  /\ missing = 0
  /\ out = Null
  /\ plain = << >>
  /\ decoded = Null

\* await fetchText(mapUrl) rejects: main() rejects, the catch handler exits
FetchMapFail ==
  /\ pc = "fetchMap"
  /\ pc' = "exit1"
  /\ mapFetch' = "failed"
  /\ UNCHANGED unitVars
  /\ UNCHANGED << mapHtml, rawNades, allNades, limitArg, limit, max, nades, sub, queue,
                  active, st, released, fetched, ret, thrown, values, allP,
                  reordered, done, lines, missing, out >>

\* await fetchText(mapUrl) answers html: extraction, the cap and the check
\* for an empty list, up to the creation of the limiter
FetchMapOk(html) ==
  /\ pc = "fetchMap"
  /\ mapFetch' = "ok"
  /\ mapHtml' = html
  /\ rawNades' = ParseSpans(html)
  /\ allNades' = extractNadesFromMapHtml(html)
  /\ nades' = Truncate(allNades', max)
  /\ pc' = IF NoNades(nades') THEN "exit1" ELSE "submit"
  /\ st' = [ i \in 1..Len(nades') |-> "new" ]
  /\ ret' = [ i \in 1..Len(nades') |-> Null ]
  /\ thrown' = [ i \in 1..Len(nades') |-> "none" ]
  /\ values' = [ i \in 1..Len(nades') |-> Null ]
  /\ UNCHANGED unitVars
  /\ UNCHANGED << limitArg, limit, max, sub, queue, active, released, fetched, allP,
                  reordered, done, lines, missing, out >>

\* one step of nades.map(): limiter(fn) queues the job and calls next().
\* Nothing reads the listing document and the extractor's lists from here
\* on: the model forgets them.
Submit ==
  /\ pc = "submit"
  /\ sub <= Len(nades)
  /\ LET r == CallNext(Append(queue, sub), active,
                       [ st EXCEPT ![sub] = "queued" ], fetched) IN
       /\ queue' = r.queue
       /\ active' = r.active
       /\ st' = r.st
       /\ fetched' = r.fetched
  /\ sub' = sub + 1
  /\ mapHtml' = << >>
  /\ rawNades' = << >>
  /\ allNades' = << >>
  /\ limitArg' = Absent
  /\ UNCHANGED unitVars
  /\ UNCHANGED << pc, mapFetch, limit, max, nades, released, ret, thrown, values,
                  allP, reordered, done, lines, missing, out >>

\* await Promise.all(...): main() waits for the jobs
AwaitAll ==
  /\ pc = "submit"
  /\ sub > Len(nades)
  /\ pc' = "awaitAll"
  /\ allP' = "pending"
  /\ UNCHANGED unitVars
  /\ UNCHANGED << mapFetch, mapHtml, rawNades, allNades, limitArg, limit, max, nades, sub,
                  queue, active, st, released, fetched, ret, thrown, values,
                  reordered, done, lines, missing, out >>

\* job i runs on to its end: its fetch is answered (or it had none) and it
\* returns or throws; the limiter's promise settles likewise and, when
\* fulfilled, Promise.all takes its value
Settle(i, resp) ==
  /\ pc = "awaitAll"
  /\ i \in Jobs
  /\ Running(i)
  /\ resp \in (IF st[i] = "fetching" THEN Responses ELSE { << >> })
  /\ LET o == JobOutcome(nades[i], resp)
         k == Cardinality({ j \in Jobs : st[j] = "resolved" })
     IN /\ st' = [ st EXCEPT ![i] = IF o.kind = "return" THEN "resolved" ELSE "rejected" ]
        /\ ret' = [ ret EXCEPT ![i] = o.value ]
        /\ thrown' = [ thrown EXCEPT ![i] = o.thrown ]
        /\ done' = IF o.counted THEN done + 1 ELSE done
        /\ values' = IF o.kind = "return"
                     THEN PromiseAllStore(values, i, o.value, k) ELSE values
  /\ reordered' = (reordered \/ \E j \in 1..(i - 1) : ~Settled(j))
  /\ UNCHANGED unitVars
  /\ UNCHANGED << pc, mapFetch, mapHtml, rawNades, allNades, limitArg, limit, max, nades,
                  sub, queue, active, released, fetched, allP, lines, missing, out >>

\* the finally-callback of job i: active--, next()
Release(i) ==
  /\ pc \in { "awaitAll", "writing" }
  /\ i \in Jobs
  /\ Settled(i)
  /\ i \notin released
  /\ released' = released \cup { i }
  /\ LET r == CallNext(queue, active - 1, st, fetched) IN
       /\ queue' = r.queue
       /\ active' = r.active
       /\ st' = r.st
       /\ fetched' = r.fetched
  /\ UNCHANGED unitVars
  /\ UNCHANGED << pc, mapFetch, mapHtml, rawNades, allNades, limitArg, limit, max, nades,
                  sub, ret, thrown, values, allP, reordered, done, lines, missing,
                  out >>

\* a limiter promise rejected: Promise.all rejects, main() rejects and the
\* catch handler calls process.exit(1)
Abort ==
  /\ pc = "awaitAll"
  /\ \E i \in Jobs : st[i] = "rejected"
  /\ allP' = "rejected"
  /\ pc' = "exit1"
  /\ UNCHANGED unitVars
  /\ UNCHANGED << mapFetch, mapHtml, rawNades, allNades, limitArg, limit, max, nades, sub,
                  queue, active, st, released, fetched, ret, thrown, values,
                  reordered, done, lines, missing, out >>

\* every limiter promise fulfilled: Promise.all fulfils, main() builds the
\* lines and calls writeFile
RenderAll ==
  /\ pc = "awaitAll"
  /\ \A i \in Jobs : st[i] = "resolved"
  /\ allP' = "fulfilled"
  /\ lines' = Render(values)
  /\ missing' = Missing(values)
  /\ pc' = "writing"
  /\ UNCHANGED unitVars
  /\ UNCHANGED << mapFetch, mapHtml, rawNades, allNades, limitArg, limit, max, nades, sub,
                  queue, active, st, released, fetched, ret, thrown, values,
                  reordered, done, out >>

\* writeFile completes (an I/O completion: the pending callbacks have run)
WriteOk ==
  /\ pc = "writing"
  /\ released = Jobs
  /\ out' = lines
  /\ pc' = "done"
  /\ UNCHANGED unitVars
  /\ UNCHANGED << mapFetch, mapHtml, rawNades, allNades, limitArg, limit, max, nades, sub,
                  queue, active, st, released, fetched, ret, thrown, values, allP,
                  reordered, done, lines, missing >>

\* writeFile rejects: main() rejects, the catch handler exits
WriteFail ==
  /\ pc = "writing"
  /\ released = Jobs
  /\ pc' = "exit1"
  /\ UNCHANGED unitVars
  /\ UNCHANGED << mapFetch, mapHtml, rawNades, allNades, limitArg, limit, max, nades, sub,
                  queue, active, st, released, fetched, ret, thrown, values, allP,
                  reordered, done, lines, missing, out >>

\* the documents the listing request can be answered with: none once it has
\* been answered
PendingListings == IF pc = "fetchMap" THEN Listings ELSE {}

Next ==
  \/ FetchMapFail
  \/ \E html \in PendingListings : FetchMapOk(html)
  \/ Submit
  \/ AwaitAll
  \/ \E i \in Jobs : \E resp \in Responses \cup { << >> } : Settle(i, resp)
  \/ \E i \in Jobs : Release(i)
  \/ Abort
  \/ RenderAll
  \/ WriteOk
  \/ WriteFail

Spec == Init /\ [][Next]_vars

(***************************************************************************)
(* main() from the creation of the limiter on, for any list of records     *)
(* with pairwise distinct keys: the type of a record is not assumed to     *)
(* come from the extractor's closed enum.                                  *)
(***************************************************************************)
\* Largest number of records handed to the limiter in SpecJobs.
MaxJobs == 3

Summary(id, slug, type, team) ==
  [ id |-> nadePrefix \o id, slug |-> slug, type |-> type, team |-> team,
    titleFrom |-> Null, titleTo |-> Null ]

Summaries ==
  { Summary(<< "1" >>, << "a" >>, smoke, << "t" >>),
    Summary(<< "3" >>, << "b" >>, flashbang, Null),
    Summary(<< "4" >>, << "c" >>, other, Null),
    Summary(<< "7" >>, << "a" >>, other, << "c", "t" >>) }

JobLists ==
  { S \in UNION { [ 1..n -> Summaries ] : n \in 1..MaxJobs } :
      \A i, j \in 1..Len(S) :
         i # j => (S[i].type # S[j].type \/ S[i].slug # S[j].slug) }

InitJobs ==
  /\ pc = "submit"
  /\ mapFetch = "ok"
  /\ mapHtml = << >>
  /\ rawNades = << >>
  /\ allNades = << >>
  /\ limitArg \in LimitArgs
  /\ limit = LimitOf(limitArg)
  /\ max = << >>
  /\ nades \in JobLists
  /\ sub = 1
  /\ queue = << >>
  /\ active = 0
  /\ st = [ i \in 1..Len(nades) |-> "new" ]
  /\ released = {}
  /\ fetched = {}
  /\ ret = [ i \in 1..Len(nades) |-> Null ]
  /\ thrown = [ i \in 1..Len(nades) |-> "none" ]
  /\ values = [ i \in 1..Len(nades) |-> Null ]
  /\ allP = "none"
  /\ reordered = FALSE
  /\ done = 0
  /\ lines = Null
  /\ missing = 0
  /\ out = Null
  /\ plain = << >>
  /\ decoded = Null

NextJobs ==
  \/ Submit
  \/ AwaitAll
  \/ \E i \in Jobs : \E resp \in Responses \cup { << >> } : Settle(i, resp)
  \/ \E i \in Jobs : Release(i)
  \/ Abort
  \/ RenderAll
  \/ WriteOk
  \/ WriteFail

SpecJobs == InitJobs /\ [][NextJobs]_vars

(***************************************************************************)
(* decodeJsEscapedString on its own: a text is written the way the source  *)
(* page escapes it and handed to the decoder.                              *)
(***************************************************************************)
\* Longest text handed to the decoder in SpecDecode.
MaxText == 3

\* printable characters, the double quote, the backslash and the line break
TextChars == { "a", " ", QT, BS, LF }

Texts == UNION { [ 1..n -> TextChars ] : n \in 0..MaxText }

InitDecode ==
  /\ pc = "unit"
  /\ mapFetch = "pending"
  /\ mapHtml = << >>
  /\ rawNades = << >>
  /\ allNades = << >>
  /\ limitArg = Absent
  /\ limit = LimitOf(limitArg)
  /\ max = << >>
  /\ nades = << >>
  /\ sub = 1
  /\ queue = << >>
  /\ active = 0
  /\ st = << >>
  /\ released = {}
  /\ fetched = {}
  /\ ret = << >>
  /\ thrown = << >>
  /\ values = << >>
  /\ allP = "none"
  /\ reordered = FALSE
  /\ done = 0
  /\ lines = Null
  /\ missing = 0
  /\ out = Null
  /\ plain \in Texts
  /\ decoded = Null

\* decodeJsEscapedString(m[1]) for a console value the page wrote as the
\* escaped form of plain
Decode(escaped) ==
  /\ pc = "unit"
  /\ decoded = Null
  /\ decoded' = decodeJsEscapedString(escaped)
  /\ UNCHANGED << mainVars, plain >>

(***************************************************************************)
(* Properties                                                              *)
(***************************************************************************)
\* the state right after the discovery pass
AfterDiscovery == mapFetch = "ok" /\ sub = 1 /\ pc \in { "submit", "exit1" }

SameTypeAndSlug(a, b) == a.type = b.type /\ a.slug = b.slug

\* the elements of S at the indices in I, in order
Pick(S, I) ==
  [ k \in 1..Cardinality(I) |->
      S[CHOOSE i \in I : Cardinality({ j \in I : j <= i }) = k] ]

\* the first record of each (type, slug), in input order
FirstOfEach(S) ==
  Pick(S, { i \in 1..Len(S) : \A j \in 1..(i - 1) : ~SameTypeAndSlug(S[j], S[i]) })

\* the composite key type + ":" + slug
CompositeKey(n) == n.type \o << ":" >> \o n.slug

\* the first record of each composite key, in input order
FirstOfEachKey(S) ==
  Pick(S, { i \in 1..Len(S) :
              \A j \in 1..(i - 1) : CompositeKey(S[j]) # CompositeKey(S[i]) })

\* the number of blocks of the written file: each ends in an empty line
BlockCount(ls) == Cardinality({ i \in 4..Len(ls) : ls[i] = << >> })

\* C1 (as claimed): when the fetch of one item document rejects, the run is
\* not aborted: the record becomes a result carrying an error, and a
\* finished run has written one block per discovered record.
C1_ItemFetchFailureDoesNotAbort ==
  /\ (\E i \in Jobs : thrown[i] = "fetch") => (pc # "exit1" /\ allP # "rejected")
  /\ pc = "done" => BlockCount(out) = Len(nades)

\* C2: once Promise.all has fulfilled, its i-th value is the outcome of the
\* i-th submitted job, which is the result for the i-th discovered record,
\* and the blocks are rendered in that order, whatever the order in which
\* the jobs completed.
C2_ResultsInSubmissionOrder ==
  allP = "fulfilled" =>
    /\ Len(values) = Len(nades)
    /\ \A i \in Jobs : values[i] = ret[i] /\ values[i].nade = nades[i]
    /\ lines = Render([ i \in Jobs |-> ret[i] ])

C2_Witness ==
  /\ pc = "done"
  /\ allP = "fulfilled"
  /\ reordered
  /\ Len(nades) = 3
  /\ limit = 2

\* C3: the number of jobs started and not yet settled never exceeds the
\* limit.
C3_ConcurrencyCeiling ==
  Cardinality({ i \in Jobs : Running(i) }) <= limit

C3_Witness ==
  /\ Len(nades) > limit
  /\ Cardinality({ i \in Jobs : Running(i) }) = limit
  /\ \E i \in Jobs : st[i] = "rejected" /\ i \in released
  /\ \E i \in Jobs : st[i] = "resolved" /\ i \in released

\* C4: no two records handed to the scheduler share their (type, slug);
\* records that differ in their id only count as one.
C4_UniqueKeys ==
  \A i, j \in Jobs : i # j => ~SameTypeAndSlug(nades[i], nades[j])

C4_Witness ==
  /\ AfterDiscovery
  /\ pc = "submit"
  /\ Len(max) # 0
  /\ \E i, j \in 1..Len(rawNades) :
       /\ i # j
       /\ SameTypeAndSlug(rawNades[i], rawNades[j])
       /\ rawNades[i].id # rawNades[j].id
  /\ Len(nades) = 2

\* C5: when the listing document cannot be fetched or yields no valid
\* record, the run has failed, no job was queued or started, no item fetch
\* was issued and no output was rendered or written.
C5_DiscoveryFailureIsFatal ==
  (mapFetch = "failed" \/ (mapFetch = "ok" /\ Len(nades) = 0)) =>
    /\ pc = "exit1"
    /\ fetched = {}
    /\ queue = << >>
    /\ active = 0
    /\ sub = 1
    /\ allP = "none"
    /\ lines = Null
    /\ out = Null

C5_Witness ==
  /\ mapFetch = "ok"
  /\ Len(mapHtml) > 0
  /\ Len(nades) = 0
  /\ pc = "exit1"

\* C6 (as claimed): when the decoding of the console text throws, the
\* record becomes a result without console text and without error, and the
\* run is not aborted.
C6_DecodeFailureDegrades ==
  \A i \in Jobs : thrown[i] = "decode" =>
    /\ pc # "exit1"
    /\ allP # "rejected"
    /\ st[i] # "rejected"

\* C7: a record whose type has no category path issues no fetch; its job
\* never rejects and resolves to a result with an error and no console
\* text.
C7_UnknownTypeNeverFetched ==
  \A i \in Jobs : nades[i].type \notin Types =>
    /\ i \notin fetched
    /\ st[i] # "rejected"
    /\ thrown[i] = "none"
    /\ st[i] = "resolved" => (ret[i].console = Null /\ ret[i].error # Null
                               /\ ret[i].nade = nades[i])

C7_Witness ==
  /\ pc = "done"
  /\ Len(nades) >= 2
  /\ \E i \in Jobs : nades[i].type \notin Types /\ st[i] = "resolved"
  /\ \E i \in Jobs : i \in fetched

\* C8 (as claimed): with the cap set to k, the scheduled records are the
\* deduplication of the first k extracted records.
C8_TruncateBeforeDedupe ==
  (AfterDiscovery /\ Len(max) # 0) =>
    nades = FirstOfEach(SubSeq(rawNades, 1, Min2(max[1], Len(rawNades))))

\* C8 (amended): with the cap set to k, the scheduled records are the first
\* k records of the deduplication of all extracted records.
C8_TruncateAfterDedupe ==
  (AfterDiscovery /\ Len(max) # 0) =>
    LET d == FirstOfEach(rawNades) IN
    nades = SubSeq(d, 1, Min2(max[1], Len(d)))

C8_Witness ==
  /\ AfterDiscovery
  /\ max = << 2 >>
  /\ Len(rawNades) = 3
  /\ SameTypeAndSlug(rawNades[1], rawNades[2])
  /\ Len(nades) = 2

\* C9 (as claimed): the overall call fulfils only once every job has
\* settled and none is queued or running, and a rejecting job does not make
\* the overall call fail.
C9_OverallCallNeverFails ==
  /\ allP = "fulfilled" => (queue = << >> /\ \A i \in Jobs : Settled(i))
  /\ allP # "rejected"

\* C10: the deduplicated list is the subsequence of the extracted list made
\* of the first record of each key type + ":" + slug, in input order; a
\* list whose keys are pairwise distinct is returned unchanged.
C10_FirstSeenWins ==
  AfterDiscovery =>
    /\ allNades = FirstOfEachKey(rawNades)
    /\ (\A i, j \in 1..Len(rawNades) :
          i # j => CompositeKey(rawNades[i]) # CompositeKey(rawNades[j]))
       => allNades = rawNades

C10_Witness ==
  /\ AfterDiscovery
  /\ Len(rawNades) = 3
  /\ CompositeKey(rawNades[1]) = CompositeKey(rawNades[3])
  /\ rawNades[1] # rawNades[3]
  /\ allNades = << rawNades[1], rawNades[2] >>

\* C11: deduplication is idempotent: applied to its own result, the filter
\* returns that result.
C11_DedupeIdempotent ==
  AfterDiscovery =>
    /\ Dedupe(allNades) = allNades
    /\ Dedupe(Dedupe(rawNades)) = Dedupe(rawNades)

C11_Witness ==
  /\ AfterDiscovery
  /\ Len(rawNades) = 3
  /\ \A i, j \in 1..3 : CompositeKey(rawNades[i]) = CompositeKey(rawNades[j])
  /\ rawNades[1].id # rawNades[2].id
  /\ Len(allNades) = 1

\* the blocks of a file: the lines after the three header lines, cut after
\* each empty line
RECURSIVE CutBlocks(_, _)
CutBlocks(ls, cur) ==
  IF ls = << >> THEN (IF cur = << >> THEN << >> ELSE << cur >>)
  ELSE IF Head(ls) = << >> THEN << Append(cur, << >>) >> \o CutBlocks(Tail(ls), << >>)
  ELSE CutBlocks(Tail(ls), Append(cur, Head(ls)))

FileBlocks(ls) == CutBlocks(SubSeq(ls, 4, Len(ls)), << >>)

MissingMarker == << "// MISSING_CONSOLE" >>

\* the end-to-end scenario: a smoke record "a" of team t and a flashbang
\* record "b" without team; item "a" answers the console text, item "b" has
\* no console field; the run has finished
Scenario ==
  /\ pc = "done"
  /\ Len(nades) = 2
  /\ nades[1].type = smoke /\ nades[1].slug = << "a" >> /\ nades[1].team = << "t" >>
  /\ nades[1].titleFrom = Null /\ nades[1].titleTo = Null
  /\ nades[2].type = flashbang /\ nades[2].slug = << "b" >> /\ nades[2].team = Null
  /\ nades[2].titleFrom = Null /\ nades[2].titleTo = Null
  /\ ret[1].console = consoleA
  /\ ret[2].console = Null

\* the file holds exactly two blocks, the first labelled l1 and ending in
\* the command line, the second labelled l2 and ending in the marker, and
\* one record is counted as missing
ScenarioFile(l1, l2) ==
  LET b == FileBlocks(out) IN
  /\ Len(b) = 2
  /\ b[1][1] = << "// " >> \o l1
  /\ b[1][Len(b[1]) - 1] = consoleA
  /\ \A k \in 1..Len(b[1]) : b[1][k] # MissingMarker
  /\ b[2][1] = << "// " >> \o l2
  /\ b[2][Len(b[2]) - 1] = MissingMarker
  /\ missing = 1

\* C12 (as claimed): in the end-to-end scenario the blocks are labelled
\* SMOKE | T | a and FLASHBANG | ANY | b.
C12_EndToEndUpperCaseType ==
  Scenario =>
    ScenarioFile(toUpperCase(smoke) \o << " | ", "T", " | ", "a" >>,
                 toUpperCase(flashbang) \o << " | ", "ANY", " | ", "b" >>)

\* C12 (amended): in the end-to-end scenario the file holds exactly two
\* blocks, the first labelled smoke | T | a and followed by the command
\* line setpos 1 2 3;setang 4 5 6, the second labelled flashbang | ANY | b
\* and followed by the MISSING_CONSOLE marker, and the missing count is 1.
C12_EndToEnd ==
  Scenario =>
    ScenarioFile(smoke \o << " | ", "T", " | ", "a" >>,
                 flashbang \o << " | ", "ANY", " | ", "b" >>)

C12_Witness ==
  /\ Scenario
  /\ Len(out) = 11
  /\ missing = 1

\* C13: whatever --limit holds (zero, a negative number, no number), the
\* limit the limiter is created with is an integer of at least 1, so that
\* the first job handed to it is started.
C13_LimitAtLeastOne ==
  /\ limit \in Nat /\ limit >= 1
  /\ (pc = "submit" /\ sub = 2) => (active = 1 /\ queue = << >>)

C13_Witness ==
  /\ AfterDiscovery
  /\ pc = "submit"
  /\ limitArg = Arg(TRUE, FALSE, 0)
  /\ limit = DEFAULT_LIMIT

\* the way the source page writes a text: quote as backslash-quote, line
\* break as backslash-n, backslash as backslash-backslash
RECURSIVE EscapeLikeSource(_)
EscapeLikeSource(s) ==
  IF s = << >> THEN << >>
  ELSE (CASE Head(s) = QT -> << BS, QT >>
          [] Head(s) = LF -> << BS, "n" >>
          [] Head(s) = BS -> << BS, BS >>
          [] OTHER        -> << Head(s) >>) \o EscapeLikeSource(Tail(s))

NextDecode == Decode(EscapeLikeSource(plain))

SpecDecode == InitDecode /\ [][NextDecode]_vars

\* C14 (as claimed): decoding the source-style escaped form of a text of
\* printable characters, quotes and line breaks returns the text.
C14_UnescapeRoundTrip ==
  (pc = "unit" /\ decoded # Null) => decoded = plain

\* C15 (as claimed): after a job rejected and gave its slot back, every other
\* submitted job is still admitted and runs to its own settlement: the
\* program does not stop while a job is queued or running.
C15_SiblingsRunToSettlement ==
  (pc = "exit1" /\ \E i \in Jobs : st[i] = "rejected" /\ i \in released)
    => \A j \in Jobs : Settled(j)

\* the finally-callback of some job ran in this step
SlotReleased == released' # released

\* C16: admission is greedy.  The step that gives a slot back decrements the
\* active count and, when a job is pending, admits exactly one (the head of
\* the queue) in the same step; and at every time a non-empty pending queue
\* means that the active count equals the limit.
C16_GreedyAdmission ==
  /\ [](queue # << >> => active = limit)
  /\ [][ SlotReleased =>
           IF queue = << >>
           THEN active' = active - 1 /\ queue' = queue /\ st' = st
           ELSE /\ active' = active
                /\ queue' = Tail(queue)
                /\ st[Head(queue)] = "queued"
                /\ st'[Head(queue)] \in { "fetching", "returning" }
                /\ \A j \in Jobs \ { Head(queue) } : st'[j] = st[j] ]_vars

\* a slot came back while two jobs waited: one was admitted, one still waits
C16_Witness ==
  /\ pc = "awaitAll"
  /\ released # {}
  /\ queue # << >>
  /\ active = limit
  /\ \E j \in Jobs : j > limit /\ Running(j)

\* job i was admitted (it runs or has run)
Started(i) == st[i] \notin { "new", "queued" }

\* C17: jobs are admitted in submission order: a job never starts before a
\* job submitted earlier has started, and the pending queue holds the
\* waiting jobs in submission order.
C17_FifoAdmission ==
  /\ \A i, j \in Jobs : (i < j /\ Started(j)) => Started(i)
  /\ \A k \in 1..(Len(queue) - 1) : queue[k] < queue[k + 1]

\* with one slot and three jobs: the first is over, the second took its
\* slot, the third still waits
C17_Witness ==
  /\ limit = 1
  /\ Len(nades) = 3
  /\ 1 \in released
  /\ Running(2)
  /\ st[3] = "queued"

\* the rendered lines hold one block per result, in order; every block is
\* made of comment lines (none of them the marker), then one line that is
\* the marker when the result's console text is one of noText and a command
\* line otherwise, then the blank separator; and the missing count is the
\* number of results whose console text is one of noText
RenderedPerResult(noText) ==
  LET b == FileBlocks(lines) IN
  /\ Len(b) = Len(values)
  /\ \A k \in 1..Len(b) :
       LET n == Len(b[k]) IN
       /\ n >= 3
       /\ b[k][n] = << >>
       /\ \A m \in 1..(n - 2) : Head(b[k][m]) = "// " /\ b[k][m] # MissingMarker
       /\ (b[k][n - 1] = MissingMarker) <=> (values[k].console \in noText)
       /\ b[k][n - 1] # MissingMarker =>
            (b[k][n - 1] # << >> /\ Head(b[k][n - 1]) # "// ")
  /\ missing = Cardinality({ k \in 1..Len(values) : values[k].console \in noText })

Anchors(h) == { a \in 1..Len(h) : h[a].k = "id" }

\* the span of anchor a: from a up to the next anchor or the document's end
SpanOf(h, a) ==
  { p \in a..Len(h) : \A b \in Anchors(h) : b > a => p < b }

\* the positions of span a holding a field k with a value the record takes
Holds(h, a, k) ==
  { p \in SpanOf(h, a) :
      /\ h[p].k = k
      /\ CASE k = "type" -> h[p].v \in Types
           [] k = "team" -> h[p].v \in Teams
           [] OTHER      -> h[p].v # << >> }

\* the value of the first such field, Null when the span has none
FieldOf(h, a, k) ==
  IF Holds(h, a, k) = {} THEN Null
  ELSE h[CHOOSE p \in Holds(h, a, k) : \A q \in Holds(h, a, k) : p <= q].v

\* span a has an identifier, a slug right behind it and a type of the enum
WellFormed(h, a) ==
  /\ h[a].v # << >>
  /\ a + 1 \in Holds(h, a, "slug")
  /\ Holds(h, a, "type") # {}

WellFormedAnchors(h) == { a \in Anchors(h) : WellFormed(h, a) }

RecordOf(h, a) ==
  [ id        |-> nadePrefix \o h[a].v,
    slug      |-> h[a + 1].v,
    type      |-> FieldOf(h, a, "type"),
    team      |-> FieldOf(h, a, "team"),
    titleFrom |-> FieldOf(h, a, "titleFrom"),
    titleTo   |-> FieldOf(h, a, "titleTo") ]

\* C19: the records the extractor emits (before deduplication) are those of
\* the well-formed spans, one per span and in anchor order, each built from
\* the fields of its own span only, with Null for the optional fields the
\* span lacks; a span without identifier, without a slug right behind the
\* identifier or without a type of the enum gives no record and changes no
\* other record; a document without anchor gives the empty sequence.
C19_OneRecordPerWellFormedSpan ==
  AfterDiscovery =>
    LET W == WellFormedAnchors(mapHtml) IN
    /\ Len(rawNades) = Cardinality(W)
    /\ Len(rawNades) <= Cardinality(Anchors(mapHtml))
    /\ \A a \in W :
         rawNades[Cardinality({ b \in W : b <= a })] = RecordOf(mapHtml, a)
    /\ Anchors(mapHtml) = {} => rawNades = << >>

\* a document with a preamble and three spans: one well formed without the
\* optional fields, then one without identifier, then one that carries a
\* team but whose slug does not follow the identifier
C19_Witness ==
  /\ AfterDiscovery
  /\ Cardinality(Anchors(mapHtml)) = 3
  /\ 1 \notin Anchors(mapHtml)
  /\ Len(rawNades) = 1
  /\ rawNades[1].team = Null /\ rawNades[1].titleFrom = Null
  /\ \E a, b \in Anchors(mapHtml) :
       /\ a < b
       /\ mapHtml[a].v = << >>
       /\ FieldOf(mapHtml, b, "team") # Null
       /\ ~WellFormed(mapHtml, b)

\* C20 (as claimed): no job is starved or lost.  In finite-run form: the
\* program does not stop, after a job rejected and gave its slot back,
\* before every submitted job was admitted and the limiter came to rest
\* with an empty pending queue and an active count of 0.
C20_LimiterComesToRest ==
  (pc = "exit1" /\ \E i \in released : st[i] = "rejected")
    => (queue = << >> /\ active = 0 /\ \A j \in Jobs : Started(j))

====
